---- MODULE Spec2Model ----
(***************************************************************************)
(* Model of the synchronization orchestrator of gut-sync,                  *)
(* src/gut/shell.py: get_tail_hash, assert_folder_empty and the body of    *)
(* sync() from the tail-hash queries (line 221) to the sync loop (line     *)
(* 356), with its nested coroutines cross_init and commit_and_update and   *)
(* the shutdown hook shutdown_watch_consumer (Spec, FairSpec); and the     *)
(* entry of sync() as committed, lines 185-202 (SessionSpec).              *)
(*                                                                         *)
(* Strings are sequences of one-character strings, so that                 *)
(* os.path.commonprefix, str.rpartition and str.split are computed         *)
(* character by character as Python computes them.                         *)
(*                                                                         *)
(* The backend commands of gut_cmd, the watchers (util.watch_for_changes)  *)
(* and terminal.shutdown are not part of shell.py: their effect on the     *)
(* state is modelled from their interface (spec.md sections 4 and 6).      *)
(***************************************************************************)
EXTENDS Naturals, Sequences, FiniteSets

VARIABLES
    pc,               \* position of the sync() coroutine
    conn,             \* per node: its SyncContext was made (lines 187-188)
    fs,               \* per node: the sync folder and the repository in it
    isWindows,        \* per node: context._is_windows
    daemon,           \* per node: the gut daemon started on it, if any
    origin,           \* per node: the pull origin configured on it, if any
    local_tail_hash,  \* line 221
    remote_tail_hash, \* line 222
    tail_hash,        \* line 223, read by cross_init through the closure
    branch,           \* history: the arm of the if of lines 238-269 taken,
                      \*          kept until the watchers are attached
    src,              \* cross_init: src_context (None outside cross_init)
    dest,             \* cross_init: dest_context (None outside cross_init)
    diagnostic,       \* the fatal diagnostic printed, if any
    hooked,           \* on_shutdown(shutdown_watch_consumer) was called
    sentinel,         \* the shutdown hook has run
    watching,         \* per node: the watcher is attached
    produced,         \* number of change events the watchers have produced
    event_queue,      \* line 310
    changed,          \* line 329 (a node is a key iff its set is non-empty)
    changed_ignore,   \* line 330
    todo,             \* keys of changed.items() still to be visited
    cu,               \* arguments of the running commit_and_update
    ret,              \* where the running commit_and_update returns to
    log,              \* history: the backend operations issued, in order,
                      \*          since the loop last went back to its wait
                      \*          (before the loop: since the session began)
    cycle,            \* history: per node, paths of all events dequeued
                      \*          since the last clear of line 338
    fs0,              \* history: fs at the start of the session, kept
                      \*          until the watchers are attached
    timer,            \* line 334: <<k>> while the wait has k ticks left
                      \*           before it times out, <<>> with no timeout
    elapsed,          \* history: ticks gone by in the wait of line 334
                      \*          since the loop last took an event
    fate,             \* history: what became of each change event, by
                      \*          the order in which the watchers produced it
    pf_paths,         \* inputs of the prefix computation (PrefixSpec)
    pf_windows,
    pf_prefix,
    pf_done

vars == <<pc, conn, fs, isWindows, daemon, origin, local_tail_hash, remote_tail_hash,
          tail_hash, branch, src, dest, diagnostic, hooked, sentinel, watching,
          produced, event_queue, changed, changed_ignore, todo, cu, ret, log,
          cycle, fs0, timer, elapsed, fate, pf_paths, pf_windows, pf_prefix, pf_done>>

mainVars == <<pc, conn, fs, isWindows, daemon, origin, local_tail_hash,
              remote_tail_hash, tail_hash, branch, src, dest, diagnostic,
              hooked, sentinel, watching, produced, event_queue, changed,
              changed_ignore, todo, cu, ret, log, cycle, fs0, timer,
              elapsed, fate>>

pfVars == <<pf_paths, pf_windows, pf_prefix, pf_done>>

(***************************************************************************)
(* Bounds                                                                  *)
(***************************************************************************)
MaxEvents == 2     \* change events produced by the watchers in one session
MaxPathLen == 3    \* length of the paths given to the prefix computation

\* the debounce window of line 334 (0.1 s), in ticks of the clock
DebounceTicks == 2

(***************************************************************************)
(* Values                                                                  *)
(***************************************************************************)
None == "None"
Node == {"local", "remote"}
Other(n) == IF n = "local" THEN "remote" ELSE "local"
Hashes == {"H1", "H2"}    \* the root commits of the repositories found
FreshHash == "H0"         \* the root commit ensure_initial_commit creates
NoEndpoint == [hash |-> None, port |-> None]
NoCall == [system |-> None, paths |-> {}, untracked |-> FALSE]
BindPort == "gutd_bind_port"
ConnectPort == "gutd_connect_port"

(***************************************************************************)
(* Strings                                                                 *)
(***************************************************************************)
\* the characters used, in code point order
Alphabet == <<".", "/", "\\", "a", "b", "c", "d", "e", "g", "i", "n", "o",
              "r", "t", "u">>
Ord(c) == CHOOSE i \in 1..Len(Alphabet) : Alphabet[i] = c

Take(s, n) == SubSeq(s, 1, n)

\* s < t in Python's string order
StrLess(s, t) ==
    \E i \in 1..(Len(t)) :
        /\ i <= Len(s) + 1
        /\ Take(s, i - 1) = Take(t, i - 1)
        /\ \/ i = Len(s) + 1
           \/ i <= Len(s) /\ Ord(s[i]) < Ord(t[i])

StrMin(m) == CHOOSE s \in m : \A t \in m : t = s \/ StrLess(s, t)
StrMax(m) == CHOOSE s \in m : \A t \in m : t = s \/ StrLess(t, s)

\* os.path.commonprefix(m)
commonprefix(m) ==
    IF m = {} THEN <<>>
    ELSE LET s1 == StrMin(m)
             s2 == StrMax(m)
             n == IF Len(s1) < Len(s2) THEN Len(s1) ELSE Len(s2)
             diff == {i \in 1..n : s1[i] # s2[i]}
         IN IF diff = {} THEN s1
            ELSE Take(s1, (CHOOSE i \in diff : \A j \in diff : i <= j) - 1)

\* s.rpartition(sep)[0]
rpartition_head(s, sep) ==
    LET at == {i \in 1..Len(s) : s[i] = sep}
    IN IF at = {} THEN <<>>
       ELSE Take(s, (CHOOSE i \in at : \A j \in at : j <= i) - 1)

\* s.split(sep)
RECURSIVE split(_, _)
split(s, sep) ==
    LET at == {i \in 1..Len(s) : s[i] = sep}
    IN IF at = {} THEN <<s>>
       ELSE LET i == CHOOSE k \in at : \A j \in at : k <= j
            IN <<Take(s, i - 1)>> \o split(SubSeq(s, i + 1, Len(s)), sep)

RECURSIVE join(_, _)
join(parts, sep) ==
    IF Len(parts) = 1 THEN parts[1]
    ELSE parts[1] \o <<sep>> \o join(Tail(parts), sep)

Root == <<".">>
GUT == <<".", "g", "u", "t">>
GUTIGNORE == <<".", "g", "u", "t", "i", "g", "n", "o", "r", "e">>

\* line 299
separator(windows) == IF windows THEN "\\" ELSE "/"

\* lines 291-300 of commit_and_update
CommitPrefix_untrimmed(changed_paths, windows) ==
    IF changed_paths = {} THEN Root
    ELSE IF commonprefix(changed_paths) = <<>> THEN Root
         ELSE commonprefix(changed_paths)

CommitPrefix(changed_paths, windows) ==
    IF changed_paths = {} THEN Root
    ELSE LET p == rpartition_head(commonprefix(changed_paths),
                                  separator(windows))
         IN IF p = <<>> THEN Root ELSE p

(***************************************************************************)
(* Nodes: the sync folder, the repository, the platform                    *)
(***************************************************************************)
\* the state a sync folder can be in when a session starts
FolderStates ==
    {[kind |-> k, gut |-> FALSE, root |-> None] :
        k \in {"missing", "file", "empty", "nonempty"}}
    \cup {[kind |-> "nonempty", gut |-> TRUE, root |-> r] :
        r \in Hashes \cup {None}}

\* lines 46-55
get_tail_hash(f, n) == IF f[n].gut THEN f[n].root ELSE None

\* line 59: the condition under which assert_folder_empty bails
folder_refused_only_files(f, n) == f[n].kind = "file"

folder_refused(f, n) ==
    f[n].kind # "missing" /\ (f[n].kind = "file" \/ f[n].kind = "nonempty")

\* os.sep of the process running sync(), which runs on the local node
os_sep == separator(isWindows["local"])

(***************************************************************************)
(* The backend, as the orchestrator sees it                                *)
(***************************************************************************)
Op(op, node, arg, res) == [op |-> op, node |-> node, arg |-> arg, res |-> res]
Issue(op, node, arg, res) == log' = Append(log, Op(op, node, arg, res))
Outcome == {"ok", "error"}

\* gut init: a fresh repository with no commit
InitEffect(f, n) == [f EXCEPT ![n] = [kind |-> "nonempty", gut |-> TRUE,
                                      root |-> f[n].root]]
\* the initial commit gives the repository a root when it has none
InitialCommitEffect(f, n, h) ==
    [f EXCEPT ![n].root = IF @ = None THEN h ELSE @]
\* a pull reaches the peer's daemon through the configured origin
CanPull(n) ==
    /\ origin[n] # NoEndpoint
    /\ daemon[Other(n)] # NoEndpoint
    /\ origin[n].hash = daemon[Other(n)].hash
    /\ fs[n].gut
PullEffect(f, n) ==
    [f EXCEPT ![n].root = IF @ = None THEN f[Other(n)].root ELSE @]

Live == pc \notin {"aborted", "crashed", "done"}

(***************************************************************************)
(* sync(), lines 221-273: compatibility decision and bootstrap             *)
(***************************************************************************)
noLoop == <<hooked, sentinel, watching, produced, event_queue, changed,
            changed_ignore, todo, cu, ret, cycle>>
hashVars == <<local_tail_hash, remote_tail_hash, tail_hash>>
hist == <<fs0, branch>>
fixed == <<conn, isWindows, pf_paths, pf_windows, pf_prefix, pf_done>>
quiet == <<fixed, timer, elapsed, fate>>

\* lines 221-223
GetTailHashes ==
    /\ pc = "tail_hashes"
    /\ local_tail_hash' = get_tail_hash(fs, "local")
    /\ remote_tail_hash' = get_tail_hash(fs, "remote")
    /\ tail_hash' = None
    /\ pc' = "tunnel"
    /\ UNCHANGED <<fs, daemon, origin, src, dest, diagnostic, log,
                   noLoop, quiet, hist>>

\* line 225
StartSshTunnel ==
    /\ pc = "tunnel"
    /\ \E res \in Outcome :
        pc' = IF res = "ok" THEN "decide" ELSE "crashed"
    /\ UNCHANGED <<fs, daemon, origin, hashVars, src, dest,
                   diagnostic, log, noLoop, quiet, hist>>

\* the arm of lines 238-269 taken for a pair of tail hashes
SyncBranch_equality_unchecked(l, r) ==
    IF l = None \/ r = None
    THEN IF l # None /\ r = None THEN "adopt_remote"
         ELSE IF r # None /\ l = None THEN "adopt_local"
         ELSE IF l = None /\ r = None THEN "init_both"
         ELSE "fatal"
    ELSE "compatible"

SyncBranch(l, r) ==
    IF l = None \/ l # r
    THEN IF l # None /\ r = None THEN "adopt_remote"
         ELSE IF r # None /\ l = None THEN "adopt_local"
         ELSE IF l = None /\ r = None THEN "init_both"
         ELSE "fatal"
    ELSE "compatible"

\* terminal.shutdown() ends the process (lines 64 and 265)
ShutdownPc == "aborted"

\* the first statement each arm goes on to (lines 243, 248, 252, 265, 268)
AfterDecide_fatal_falls_through(b) ==
    CASE b = "adopt_remote" -> "assert_dest"
      [] b = "adopt_local" -> "assert_dest"
      [] b = "init_both" -> "assert_remote"
      [] b = "compatible" -> "daemon_local"
      [] OTHER -> "origin_local"

AfterDecide(b) ==
    CASE b = "adopt_remote" -> "assert_dest"
      [] b = "adopt_local" -> "assert_dest"
      [] b = "init_both" -> "assert_remote"
      [] b = "compatible" -> "daemon_local"
      [] OTHER -> ShutdownPc

\* lines 238-242, 246-247, 251, 261-267: up to the first call of each arm
Decide ==
    /\ pc = "decide"
    /\ LET b == SyncBranch(local_tail_hash, remote_tail_hash) IN
        /\ branch' = b
        /\ tail_hash' = CASE b = "adopt_remote" -> local_tail_hash
                          [] b = "adopt_local" -> remote_tail_hash
                          [] b = "compatible" -> local_tail_hash
                          [] OTHER -> tail_hash
        /\ src' = CASE b = "adopt_remote" -> "local"
                    [] b = "adopt_local" -> "remote"
                    [] OTHER -> src
        /\ dest' = CASE b = "adopt_remote" -> "remote"
                     [] b = "adopt_local" -> "local"
                     [] OTHER -> dest
        /\ pc' = AfterDecide(b)
        /\ diagnostic' = IF b = "fatal" THEN "incompatible" ELSE diagnostic
    /\ UNCHANGED <<fs, daemon, origin, local_tail_hash, remote_tail_hash,
                   log, noLoop, quiet, fs0>>

\* lines 57-64, called at lines 243, 248, 252, 253
assert_folder_empty(at, n, next) ==
    /\ pc = at
    /\ IF folder_refused(fs, n)
       THEN pc' = ShutdownPc /\ diagnostic' = "not_empty"
       ELSE pc' = next /\ UNCHANGED diagnostic
    /\ UNCHANGED <<fs, daemon, origin, hashVars, src, dest, log,
                   noLoop, quiet, hist>>

AssertDestEmpty == assert_folder_empty("assert_dest", dest, "ci_daemon_src")
AssertRemoteEmpty == assert_folder_empty("assert_remote", "remote",
                                         "assert_local")
AssertLocalEmpty == assert_folder_empty("assert_local", "local", "init_local")

\* line 256
InitLocal ==
    /\ pc = "init_local"
    /\ \E res \in Outcome :
        /\ Issue("init", "local", None, res)
        /\ IF res = "ok"
           THEN fs' = InitEffect(fs, "local") /\ pc' = "initial_commit"
           ELSE UNCHANGED fs /\ pc' = "crashed"
    /\ UNCHANGED <<daemon, origin, hashVars, src, dest, diagnostic,
                   noLoop, quiet, hist>>

\* line 257
EnsureInitialCommit ==
    /\ pc = "initial_commit"
    /\ \/ /\ Issue("initial_commit", "local", None, "ok")
          /\ fs' = InitialCommitEffect(fs, "local", FreshHash)
          /\ pc' = "reread_tail_hash"
       \/ /\ Issue("initial_commit", "local", None, "error")
          /\ UNCHANGED fs
          /\ pc' = "crashed"
    /\ UNCHANGED <<daemon, origin, hashVars, src, dest, diagnostic,
                   noLoop, quiet, hist>>

\* lines 258-260: the agreed hash is read back, then cross_init(local, remote)
RereadTailHash ==
    /\ pc = "reread_tail_hash"
    /\ tail_hash' = get_tail_hash(fs, "local")
    /\ src' = "local"
    /\ dest' = "remote"
    /\ pc' = "ci_daemon_src"
    /\ UNCHANGED <<fs, daemon, origin, local_tail_hash, remote_tail_hash,
                   diagnostic, log, noLoop, quiet, hist>>

\* a call of gut_cmd.daemon (lines 229, 235, 268, 269)
StartDaemon(at, n, next) ==
    /\ pc = at
    /\ \E res \in Outcome :
        /\ Issue("daemon", n, <<tail_hash, BindPort>>, res)
        /\ IF res = "ok"
           THEN /\ daemon' = [daemon EXCEPT ![n] = [hash |-> tail_hash,
                                                    port |-> BindPort]]
                /\ pc' = next
           ELSE UNCHANGED daemon /\ pc' = "crashed"
    /\ UNCHANGED <<fs, origin, hashVars, diagnostic,
                   noLoop, quiet, hist>>

\* a call of gut_cmd.setup_origin (lines 231, 272, 273)
SetupOrigin(at, n, next) ==
    /\ pc = at
    /\ \E res \in Outcome :
        /\ Issue("setup_origin", n, <<tail_hash, ConnectPort>>, res)
        /\ IF res = "ok"
           THEN /\ origin' = [origin EXCEPT ![n] = [hash |-> tail_hash,
                                                    port |-> ConnectPort]]
                /\ pc' = next
           ELSE UNCHANGED origin /\ pc' = "crashed"
    /\ UNCHANGED <<fs, daemon, hashVars, src, dest, diagnostic,
                   noLoop, quiet, hist>>

\* a call of gut_cmd.pull outside commit_and_update (lines 234, 326, 327)
PullUnguarded_caught(at, n, next) ==
    /\ pc = at
    /\ \E res \in Outcome :
        /\ res = "ok" => CanPull(n)
        /\ Issue("pull", n, "sync", res)
        /\ fs' = IF res = "ok" THEN PullEffect(fs, n) ELSE fs
        /\ pc' = next
    /\ UNCHANGED <<daemon, origin, hashVars, src, dest, diagnostic,
                   noLoop, quiet, hist>>

PullUnguarded(at, n, next) ==
    /\ pc = at
    /\ \E res \in Outcome :
        /\ res = "ok" => CanPull(n)
        /\ Issue("pull", n, "sync", res)
        /\ IF res = "ok"
           THEN fs' = PullEffect(fs, n) /\ pc' = next
           ELSE UNCHANGED fs /\ pc' = "crashed"
    /\ UNCHANGED <<daemon, origin, hashVars, src, dest, diagnostic,
                   noLoop, quiet, hist>>

\* cross_init, lines 227-235
CrossInitDaemonSrc ==
    /\ StartDaemon("ci_daemon_src", src, "ci_init")
    /\ UNCHANGED <<src, dest>>

CrossInitInit ==
    /\ pc = "ci_init"
    /\ \E res \in Outcome :
        /\ Issue("init", dest, None, res)
        /\ IF res = "ok"
           THEN fs' = InitEffect(fs, dest) /\ pc' = "ci_setup_origin"
           ELSE UNCHANGED fs /\ pc' = "crashed"
    /\ UNCHANGED <<daemon, origin, hashVars, src, dest, diagnostic,
                   noLoop, quiet, hist>>

CrossInitSetupOrigin_skipped ==
    /\ pc = "ci_setup_origin"
    /\ pc' = "ci_sleep"
    /\ UNCHANGED <<fs, log, daemon, origin, hashVars, src, dest,
                   diagnostic, noLoop, quiet, hist>>

CrossInitSetupOrigin == SetupOrigin("ci_setup_origin", dest, "ci_sleep")

CrossInitSleep ==
    /\ pc = "ci_sleep"
    /\ Issue("sleep", dest, None, "ok")
    /\ pc' = "ci_pull"
    /\ UNCHANGED <<fs, daemon, origin, hashVars, src, dest,
                   diagnostic, noLoop, quiet, hist>>

CrossInitPull_skipped ==
    /\ pc = "ci_pull"
    /\ pc' = "ci_daemon_dest"
    /\ UNCHANGED <<fs, log, daemon, origin, hashVars, src, dest,
                   diagnostic, noLoop, quiet, hist>>

CrossInitPull == PullUnguarded("ci_pull", dest, "ci_daemon_dest")

\* line 235, after which cross_init returns
CrossInitDaemonDest ==
    /\ StartDaemon("ci_daemon_dest", dest, "origin_local")
    /\ src' = None
    /\ dest' = None

\* lines 268-269
DaemonLocal ==
    /\ StartDaemon("daemon_local", "local", "daemon_remote")
    /\ UNCHANGED <<src, dest>>
DaemonRemote_not_started ==
    /\ pc = "daemon_remote"
    /\ pc' = "origin_local"
    /\ UNCHANGED <<fs, log, daemon, origin, hashVars, src, dest,
                   diagnostic, noLoop, quiet, hist>>

DaemonRemote ==
    /\ StartDaemon("daemon_remote", "remote", "origin_local")
    /\ UNCHANGED <<src, dest>>

\* lines 272-273
SetupOriginLocal == SetupOrigin("origin_local", "local", "origin_remote")
SetupOriginRemote == SetupOrigin("origin_remote", "remote", "register")

(***************************************************************************)
(* sync(), lines 275-327: commit_and_update, shutdown hook, watchers,      *)
(* initial flush                                                           *)
(***************************************************************************)
noBoot == <<daemon, origin, hashVars, src, dest, diagnostic>>
SHUTDOWN_STR == "3qo4c8h56t349yo57yfv534wto8i7435oi5"
\* the queue holds (system, path) pairs and the sentinel
ShutdownEvent == [system |-> SHUTDOWN_STR, path |-> <<>>]

\* the paths the watchers report, as lists of path components
A == <<"a">>
B == <<"b">>
C == <<"c">>
D == <<"d">>
WatchedPaths == {<<A, B, C>>, <<A, D>>, <<A, GUTIGNORE>>, <<GUT, GUTIGNORE>>}

\* the path a watcher on node n reports for a list of components
ReportedPath(n, parts) == join(parts, separator(isWindows[n]))

\* the components of a path reported by node n
Components(n, path) == split(path, separator(isWindows[n]))

\* lines 310-317: the queue is created and the hook is registered
RegisterShutdownHook ==
    /\ pc = "register"
    /\ event_queue' = <<>>
    /\ hooked' = TRUE
    /\ pc' = "watch_local"
    /\ UNCHANGED <<fs, log, noBoot, sentinel, watching, produced, changed,
                   changed_ignore, todo, cu, ret, cycle, quiet, hist>>

\* lines 312-316, run by terminal.shutdown once the hook is registered
shutdown_watch_consumer ==
    /\ hooked
    /\ ~sentinel
    /\ Live
    /\ event_queue' = Append(event_queue, ShutdownEvent)
    /\ sentinel' = TRUE
    /\ UNCHANGED <<pc, fs, log, noBoot, hooked, watching, produced, changed,
                   changed_ignore, todo, cu, ret, cycle, quiet, hist>>

\* lines 319-320
WatchForChanges(at, n, next) ==
    /\ pc = at
    /\ watching' = [watching EXCEPT ![n] = TRUE]
    /\ pc' = next
    /\ UNCHANGED <<fs, log, noBoot, hooked, sentinel, produced, event_queue,
                   changed, changed_ignore, todo, cu, ret, cycle,
                   quiet>>

\* from here on change events arrive: the history of the bootstrap ends
WatchLocal ==
    /\ WatchForChanges("watch_local", "local", "watch_remote")
    /\ branch' = "none"
    /\ fs0' = fs

WatchRemote ==
    /\ WatchForChanges("watch_remote", "remote", "initial_cu_remote")
    /\ UNCHANGED hist

\* the flush of lines 336-337 is under way
InFlush == pc = "flush" \/ (pc \in {"cu_commit", "cu_pull"} /\ ret = "flush")

\* history of the change events: an event not yet produced
NoFate == [st |-> "none", system |-> None, path |-> <<>>, meta |-> FALSE,
           inflight |-> FALSE]

\* the event the loop takes next from the queue: the oldest one queued
Oldest(f) ==
    CHOOSE i \in DOMAIN f :
        f[i].st = "queued" /\ \A j \in DOMAIN f : j < i => f[j].st # "queued"

\* the events taken from the queue for a node and not yet passed on
TakenFor(f, system) ==
    {i \in DOMAIN f : f[i].st = "taken" /\ f[i].system = system}

\* an event whose path is among those passed to commit_and_update
Passed(f, system, paths) ==
    [i \in DOMAIN f |->
        IF i \in TakenFor(f, system) /\ f[i].path \in paths
        THEN [f[i] EXCEPT !.st = "flushed", !.system = None, !.path = <<>>]
        ELSE f[i]]

\* an event taken from the queue that no commit_and_update was given
\* before the accumulators were cleared
Wiped(f) ==
    [i \in DOMAIN f |->
        IF f[i].st = "taken"
        THEN [f[i] EXCEPT !.st = "cleared", !.system = None, !.path = <<>>]
        ELSE f[i]]

\* a watcher puts a change event into the queue
WatchEvent ==
    /\ Live
    /\ produced < MaxEvents
    /\ \E n \in Node, parts \in WatchedPaths :
        /\ watching[n]
        /\ event_queue' = Append(event_queue,
                                 [system |-> n, path |-> ReportedPath(n, parts)])
        /\ fate' = [fate EXCEPT ![produced + 1] =
                        [st |-> "queued", system |-> n,
                         path |-> ReportedPath(n, parts),
                         meta |-> \E i \in 1..Len(parts) : parts[i] = GUT,
                         inflight |-> InFlush]]
    /\ produced' = produced + 1
    /\ UNCHANGED <<pc, fs, log, noBoot, hooked, sentinel, watching, changed,
                   changed_ignore, todo, cu, ret, cycle, fixed, timer, elapsed,
                   hist>>

\* a call of commit_and_update: lines 276-288
CallCommitAndUpdate(src_system, changed_paths, update_untracked, back) ==
    /\ cu' = [system |-> src_system, paths |-> changed_paths,
              untracked |-> update_untracked]
    /\ ret' = back
    /\ pc' = "cu_commit"

\* lines 324-325
InitialFlushRemote ==
    /\ pc = "initial_cu_remote"
    /\ CallCommitAndUpdate("remote", {}, TRUE, "initial_cu_local")
    /\ UNCHANGED <<fs, log, noBoot, hooked, sentinel, watching, produced,
                   event_queue, changed, changed_ignore, todo, cycle,
                   quiet, hist>>

InitialFlushLocal_skipped ==
    /\ pc = "initial_cu_local"
    /\ pc' = "initial_pull_remote"
    /\ UNCHANGED <<fs, log, noBoot, hooked, sentinel, watching, produced,
                   event_queue, changed, changed_ignore, todo, cu, ret, cycle,
                   quiet, hist>>

InitialFlushLocal ==
    /\ pc = "initial_cu_local"
    /\ CallCommitAndUpdate("local", {}, TRUE, "initial_pull_remote")
    /\ UNCHANGED <<fs, log, noBoot, hooked, sentinel, watching, produced,
                   event_queue, changed, changed_ignore, todo, cycle,
                   quiet, hist>>

\* where a ProcessExecutionError raised by the commit goes (lines 303-308)
AfterCommit_error_propagates(res) ==
    CASE res = "committed" -> "cu_pull"
      [] res = "nothing" -> ret
      [] res = "error" -> "crashed"

AfterCommit(res) ==
    CASE res = "committed" -> "cu_pull"
      [] res = "nothing" -> ret
      [] res = "error" -> ret

\* lines 290-304: the prefix is computed and the commit is issued
CommitStep ==
    /\ pc = "cu_commit"
    /\ \E res \in {"committed", "nothing", "error"} :
        /\ Issue("commit", cu.system,
                 [paths |-> cu.paths,
                  prefix |-> CommitPrefix(cu.paths, isWindows[cu.system]),
                  untracked |-> cu.untracked], res)
        /\ pc' = AfterCommit(res)
    /\ UNCHANGED <<fs, noBoot, hooked, sentinel, watching, produced,
                   event_queue, changed, changed_ignore, todo, cu, ret, cycle,
                   quiet, hist>>

\* lines 305-308: the pull on the other node, inside the same try
PullStep_on_source ==
    /\ pc = "cu_pull"
    /\ \E res \in Outcome :
        /\ res = "ok" => CanPull(cu.system)
        /\ Issue("pull", cu.system, "commit_and_update", res)
        /\ fs' = IF res = "ok" THEN PullEffect(fs, cu.system) ELSE fs
        /\ pc' = ret
    /\ UNCHANGED <<noBoot, hooked, sentinel, watching, produced, event_queue,
                   changed, changed_ignore, todo, cu, ret, cycle,
                   quiet, hist>>

PullStep ==
    /\ pc = "cu_pull"
    /\ \E res \in Outcome :
        /\ res = "ok" => CanPull(Other(cu.system))
        /\ Issue("pull", Other(cu.system), "commit_and_update", res)
        /\ fs' = IF res = "ok" THEN PullEffect(fs, Other(cu.system)) ELSE fs
        /\ pc' = ret
    /\ UNCHANGED <<noBoot, hooked, sentinel, watching, produced, event_queue,
                   changed, changed_ignore, todo, cu, ret, cycle,
                   quiet, hist>>

\* lines 326-327
InitialPullRemote == PullUnguarded("initial_pull_remote", "remote",
                                   "initial_pull_local")
InitialPullLocal ==
    /\ pc = "initial_pull_local"
    /\ \E res \in Outcome :
        /\ res = "ok" => CanPull("local")
        /\ IF res = "ok"
           THEN fs' = PullEffect(fs, "local") /\ log' = <<>> /\ pc' = "wait"
           ELSE /\ UNCHANGED fs
                /\ Issue("pull", "local", "sync", res)
                /\ pc' = "crashed"
    /\ UNCHANGED <<daemon, origin, hashVars, src, dest, diagnostic,
                   noLoop, quiet, hist>>

(***************************************************************************)
(* sync(), lines 329-356: the sync loop                                    *)
(***************************************************************************)
HasChanged == \E n \in Node : changed[n] # {}

\* line 345 as written: the path is split at the separator of the local
\* process, whichever node reported it
path_parts_of(system, path) == split(path, os_sep)

\* lines 343-356: what one change event does to the accumulators
HandleEvent_keeping_last_path(system, path) ==
    LET path_parts == path_parts_of(system, path) IN
    IF \A i \in 1..Len(path_parts) : path_parts[i] # GUT
    THEN /\ changed' = [changed EXCEPT ![system] = {path}]
         /\ changed_ignore' =
                IF path_parts[Len(path_parts)] = GUTIGNORE
                THEN changed_ignore \cup {system}
                ELSE changed_ignore
    ELSE UNCHANGED <<changed, changed_ignore>>

HandleEvent(system, path) ==
    LET path_parts == path_parts_of(system, path) IN
    IF \A i \in 1..Len(path_parts) : path_parts[i] # GUT
    THEN /\ changed' = [changed EXCEPT ![system] = @ \cup {path}]
         /\ changed_ignore' =
                IF path_parts[Len(path_parts)] = GUTIGNORE
                THEN changed_ignore \cup {system}
                ELSE changed_ignore
    ELSE UNCHANGED <<changed, changed_ignore>>

\* what the loop does with the sentinel (lines 341-342)
AfterSentinel_debounce_first == IF HasChanged THEN "wait" ELSE "done"

AfterSentinel_ignored == "wait"

AfterSentinel == "done"

\* line 334: the timeout of the wait that follows, given the accumulator
wait_for_never_times_out(ch) == <<>>

wait_for_half_window(ch) ==
    IF \E n \in Node : ch[n] # {} THEN <<DebounceTicks - 1>> ELSE <<>>

wait_for(ch) ==
    IF \E n \in Node : ch[n] # {} THEN <<DebounceTicks>> ELSE <<>>

\* lines 333-334 and 340-356: an event is taken from the queue, and the
\* loop goes back to the wait of line 334
Dequeue ==
    /\ pc = "wait"
    /\ event_queue # <<>>
    /\ event_queue' = Tail(event_queue)
    /\ LET event == Head(event_queue) IN
        IF event.system = SHUTDOWN_STR
        THEN /\ pc' = AfterSentinel
             /\ UNCHANGED <<changed, changed_ignore, cycle, fate>>
        ELSE /\ pc' = "wait"
             /\ HandleEvent(event.system, event.path)
             /\ cycle' = [cycle EXCEPT ![event.system] = @ \cup {event.path}]
             /\ fate' = [fate EXCEPT ![Oldest(fate)].st = "taken"]
    /\ timer' = IF pc' = "wait" THEN wait_for(changed') ELSE <<>>
    /\ elapsed' = 0
    /\ UNCHANGED <<fs, log, noBoot, hooked, sentinel, watching, produced,
                   todo, cu, ret, fixed, hist>>

\* a tick of the clock goes by while the loop waits, with a timeout, on
\* the empty queue
Tick ==
    /\ pc = "wait"
    /\ event_queue = <<>>
    /\ timer # <<>>
    /\ timer[1] > 0
    /\ timer' = <<timer[1] - 1>>
    /\ elapsed' = elapsed + 1
    /\ UNCHANGED <<pc, fs, log, noBoot, hooked, sentinel, watching, produced,
                   event_queue, changed, changed_ignore, todo, cu, ret, cycle,
                   fixed, fate, hist>>

\* lines 334-336: the wait times out, nothing having come into the queue
Timeout ==
    /\ pc = "wait"
    /\ HasChanged
    /\ event_queue = <<>>
    /\ timer = <<0>>
    /\ timer' = <<>>
    /\ elapsed' = 0
    /\ todo' = {n \in Node : changed[n] # {}}
    /\ pc' = "flush"
    /\ UNCHANGED <<fs, log, noBoot, hooked, sentinel, watching, produced,
                   event_queue, changed, changed_ignore, cu, ret, cycle,
                   fixed, fate, hist>>

\* the flag line 337 passes for a node
RescanFlag(system) == system \in changed_ignore

\* lines 336-337: the next item of changed.items()
FlushNext ==
    /\ pc = "flush"
    /\ \E system \in todo :
        /\ CallCommitAndUpdate(system, changed[system], RescanFlag(system),
                               "flush")
        /\ todo' = todo \ {system}
        /\ fate' = Passed(fate, system, changed[system])
    /\ UNCHANGED <<fs, log, noBoot, hooked, sentinel, watching, produced,
                   event_queue, changed, changed_ignore, cycle,
                   fixed, timer, elapsed, hist>>

\* lines 338-339
FlushClear_emptying_queue ==
    /\ pc = "flush"
    /\ todo = {}
    /\ changed' = [n \in Node |-> {}]
    /\ changed_ignore' = {}
    /\ cycle' = [n \in Node |-> {}]
    /\ log' = <<>>
    /\ pc' = "wait"
    /\ fate' = Wiped(fate)
    /\ event_queue' = <<>>
    /\ UNCHANGED <<fs, noBoot, hooked, sentinel, watching, produced,
                   todo, cu, ret, fixed, timer, elapsed, hist>>

FlushClear_keeping_flags ==
    /\ pc = "flush"
    /\ todo = {}
    /\ changed' = [n \in Node |-> {}]
    /\ cycle' = [n \in Node |-> {}]
    /\ log' = <<>>
    /\ pc' = "wait"
    /\ fate' = Wiped(fate)
    /\ UNCHANGED <<fs, noBoot, hooked, sentinel, watching, produced,
                   event_queue, changed_ignore, todo, cu, ret, fixed, timer,
                   elapsed, hist>>

FlushClear ==
    /\ pc = "flush"
    /\ todo = {}
    /\ changed' = [n \in Node |-> {}]
    /\ changed_ignore' = {}
    /\ cycle' = [n \in Node |-> {}]
    /\ log' = <<>>
    /\ pc' = "wait"
    /\ fate' = Wiped(fate)
    /\ UNCHANGED <<fs, noBoot, hooked, sentinel, watching, produced,
                   event_queue, todo, cu, ret, fixed, timer, elapsed, hist>>

(***************************************************************************)
(* Specifications                                                          *)
(***************************************************************************)
\* The sessions explored: every pair of folder states between two POSIX
\* nodes, and every pair of platforms between two nodes that hold the same
\* repository.  The bootstrap never reads the platform, and the loop never
\* reads what the bootstrap found.
\* the nodes and the variables of sync() before its first statement
Fresh ==
    /\ fs \in [Node -> FolderStates]
    /\ fs["local"].root # "H2"      \* the two names are interchangeable
    /\ fs0 = fs
    /\ isWindows \in [Node -> BOOLEAN]
    /\ \/ isWindows = [n \in Node |-> FALSE]
       \/ fs = [n \in Node |-> [kind |-> "nonempty", gut |-> TRUE,
                                 root |-> "H1"]]
    /\ daemon = [n \in Node |-> NoEndpoint]
    /\ origin = [n \in Node |-> NoEndpoint]
    /\ local_tail_hash = None
    /\ remote_tail_hash = None
    /\ tail_hash = None
    /\ branch = "none"
    /\ src = None
    /\ dest = None
    /\ diagnostic = "none"
    /\ hooked = FALSE
    /\ sentinel = FALSE
    /\ watching = [n \in Node |-> FALSE]
    /\ produced = 0
    /\ event_queue = <<>>
    /\ changed = [n \in Node |-> {}]
    /\ changed_ignore = {}
    /\ todo = {}
    /\ cu = NoCall
    /\ ret = None
    /\ log = <<>>
    /\ cycle = [n \in Node |-> {}]
    /\ timer = <<>>
    /\ elapsed = 0
    /\ fate = [i \in 1..MaxEvents |-> NoFate]
    /\ pf_paths = {}
    /\ pf_windows = FALSE
    /\ pf_prefix = Root
    /\ pf_done = TRUE

\* the body of sync() from line 221 on, both contexts made
Init ==
    /\ pc = "tail_hashes"
    /\ conn = [n \in Node |-> TRUE]
    /\ Fresh

\* the steps of the sync() coroutine
Orchestrator ==
    \/ GetTailHashes
    \/ StartSshTunnel
    \/ Decide
    \/ AssertDestEmpty
    \/ AssertRemoteEmpty
    \/ AssertLocalEmpty
    \/ InitLocal
    \/ EnsureInitialCommit
    \/ RereadTailHash
    \/ CrossInitDaemonSrc
    \/ CrossInitInit
    \/ CrossInitSetupOrigin
    \/ CrossInitSleep
    \/ CrossInitPull
    \/ CrossInitDaemonDest
    \/ DaemonLocal
    \/ DaemonRemote
    \/ SetupOriginLocal
    \/ SetupOriginRemote
    \/ RegisterShutdownHook
    \/ WatchLocal
    \/ WatchRemote
    \/ InitialFlushRemote
    \/ InitialFlushLocal
    \/ CommitStep
    \/ PullStep
    \/ InitialPullRemote
    \/ InitialPullLocal
    \/ Dequeue
    \/ Timeout
    \/ FlushNext
    \/ FlushClear

Next ==
    \/ Orchestrator
    \/ Tick
    \/ WatchEvent
    \/ shutdown_watch_consumer

Spec == Init /\ [][Next]_vars

\* the coroutine takes its next step whenever it can: every backend command
\* it awaits completes, the event loop resumes it, and time goes by
FairSpec == Init /\ [][Next]_vars /\ WF_vars(Orchestrator) /\ WF_vars(Tick)

(***************************************************************************)
(* sync() from its entry, lines 185-202, as committed                      *)
(***************************************************************************)
entryRest == <<fs, log, noBoot, noLoop, hist, isWindows, pfVars, timer,
               elapsed, fate>>

\* line 187: the local context is plumbum.local (lines 166-167)
MakeLocal ==
    /\ pc = "make_local"
    /\ conn' = [conn EXCEPT !["local"] = TRUE]
    /\ pc' = "make_remote"
    /\ UNCHANGED entryRest

\* line 188: the remote context needs an SSH connection (lines 182-186)
MakeRemote ==
    /\ pc = "make_remote"
    /\ \E res \in Outcome :
        IF res = "ok"
        THEN conn' = [conn EXCEPT !["remote"] = TRUE] /\ pc' = "pwd"
        ELSE UNCHANGED conn /\ pc' = "crashed"
    /\ UNCHANGED entryRest

\* line 199
RunPwd ==
    /\ pc = "pwd"
    /\ \E res \in Outcome :
        pc' = IF res = "ok" THEN "return" ELSE "crashed"
    /\ UNCHANGED <<conn, entryRest>>

\* line 202
Return ==
    /\ pc = "return"
    /\ pc' = "returned"
    /\ UNCHANGED <<conn, entryRest>>

SessionInit ==
    /\ pc = "make_local"
    /\ conn = [n \in Node |-> FALSE]
    /\ Fresh

SessionNext ==
    \/ MakeLocal
    \/ MakeRemote
    \/ RunPwd
    \/ Return

SessionSpec == SessionInit /\ [][SessionNext]_vars

(***************************************************************************)
(* The prefix computation on its own, over all small sets of paths         *)
(***************************************************************************)
RECURSIVE StringsOver(_, _)
StringsOver(chars, n) ==
    IF n = 0 THEN {<<>>}
    ELSE LET shorter == StringsOver(chars, n - 1)
         IN shorter \cup {Append(s, c) : s \in shorter, c \in chars}

\* the paths of a platform: names made of two letters and its separator
PathsOf(windows) ==
    StringsOver({"a", "b", separator(windows)}, MaxPathLen) \ {<<>>}

PrefixInit ==
    /\ pf_windows \in BOOLEAN
    /\ \/ pf_paths = {}
       \/ \E x, y, z \in PathsOf(pf_windows) : pf_paths = {x, y, z}
    /\ pf_prefix = <<>>
    /\ pf_done = FALSE
    /\ pc = "done"
    /\ conn = [n \in Node |-> FALSE]
    /\ fs = [n \in Node |-> [kind |-> "missing", gut |-> FALSE, root |-> None]]
    /\ fs0 = fs
    /\ isWindows = [n \in Node |-> pf_windows]
    /\ daemon = [n \in Node |-> NoEndpoint]
    /\ origin = [n \in Node |-> NoEndpoint]
    /\ local_tail_hash = None
    /\ remote_tail_hash = None
    /\ tail_hash = None
    /\ branch = "none"
    /\ src = None
    /\ dest = None
    /\ diagnostic = "none"
    /\ hooked = FALSE
    /\ sentinel = FALSE
    /\ watching = [n \in Node |-> FALSE]
    /\ produced = 0
    /\ event_queue = <<>>
    /\ changed = [n \in Node |-> {}]
    /\ changed_ignore = {}
    /\ todo = {}
    /\ cu = NoCall
    /\ ret = None
    /\ log = <<>>
    /\ cycle = [n \in Node |-> {}]
    /\ timer = <<>>
    /\ elapsed = 0
    /\ fate = [i \in 1..MaxEvents |-> NoFate]

\* lines 291-300 applied to the chosen set
ComputePrefix ==
    /\ ~pf_done
    /\ pf_prefix' = CommitPrefix(pf_paths, pf_windows)
    /\ pf_done' = TRUE
    /\ UNCHANGED <<pf_paths, pf_windows, mainVars>>

PrefixSpec == PrefixInit /\ [][ComputePrefix]_vars

(***************************************************************************)
(* Properties                                                              *)
(***************************************************************************)
Present(h) == h # None
NoneStarted == \A n \in Node : daemon[n] = NoEndpoint /\ origin[n] = NoEndpoint
Untouched == log = <<>> /\ fs = fs0 /\ NoneStarted /\ ~hooked
OpsOf(kind) == {i \in 1..Len(log) : log[i].op = kind}

\* the table of section 4.2
DecisionTable(l, r) ==
    CASE Present(l) /\ Present(r) /\ l = r -> "compatible"
      [] Present(l) /\ ~Present(r) -> "adopt_remote"
      [] ~Present(l) /\ Present(r) -> "adopt_local"
      [] ~Present(l) /\ ~Present(r) -> "init_both"
      [] Present(l) /\ Present(r) /\ l # r -> "fatal"

\* C1: the arm taken at session start is the one the decision table gives
\* for the pair (local tail hash, remote tail hash), it is taken once, and
\* what the arm does first is what the table says: compatible starts the
\* daemons without any init, the adopt arms bootstrap the side without a
\* repository from the other, both-absent initializes local first, and
\* differing hashes abort.
C1_DecisionMatchesTable ==
    /\ pc \in {"tail_hashes", "tunnel", "decide"} => branch = "none"
    /\ (pc \notin {"tail_hashes", "tunnel", "decide", "crashed"}
            /\ \A n \in Node : ~watching[n]) => branch # "none"
    /\ branch # "none" =>
        /\ branch = DecisionTable(local_tail_hash, remote_tail_hash)
        /\ branch = "compatible" /\ ~hooked =>
            /\ OpsOf("init") = {}
            /\ tail_hash = local_tail_hash
            /\ log # <<>> => log[1].op = "daemon" /\ log[1].node = "local"
        /\ branch = "adopt_remote" /\ ~hooked =>
            /\ tail_hash = local_tail_hash
            /\ \A i \in OpsOf("init") : log[i].node = "remote"
            /\ log # <<>> => log[1].op = "daemon" /\ log[1].node = "local"
        /\ branch = "adopt_local" /\ ~hooked =>
            /\ tail_hash = remote_tail_hash
            /\ \A i \in OpsOf("init") : log[i].node = "local"
            /\ log # <<>> => log[1].op = "daemon" /\ log[1].node = "remote"
        /\ branch = "init_both" /\ ~hooked /\ log # <<>> =>
            log[1].op = "init" /\ log[1].node = "local"
        /\ branch = "fatal" => pc = "aborted"

C1_Witness ==
    /\ branch = "adopt_local"
    /\ local_tail_hash = None
    /\ remote_tail_hash = "H2"
    /\ pc = "ci_pull"

Incompatible ==
    /\ Present(local_tail_hash)
    /\ Present(remote_tail_hash)
    /\ local_tail_hash # remote_tail_hash

\* C2: when both tail hashes are present and differ, the session aborts
\* with the incompatibility diagnostic, no backend operation and no daemon
\* start is issued on either node, both folders are as they were when the
\* session started, and the initial flush and the loop are never reached.
C2_IncompatibleAbortsUntouched ==
    Incompatible =>
        /\ Untouched
        /\ pc \in {"tunnel", "decide", "crashed", "aborted"}
        /\ pc = "crashed" => branch = "none"
        /\ branch # "none" => pc = "aborted" /\ diagnostic = "incompatible"

C2_Witness ==
    /\ Incompatible
    /\ pc = "aborted"
    /\ diagnostic = "incompatible"
    /\ fs0["local"].root = "H1"
    /\ fs0["remote"].root = "H2"

\* the nodes a bootstrap arm is about to initialize
Targets ==
    CASE branch = "adopt_remote" -> {"remote"}
      [] branch = "adopt_local" -> {"local"}
      [] branch = "init_both" -> Node
      [] OTHER -> {}
Occupied(n) == fs0[n].kind \in {"file", "nonempty"}
GuardPcs == {"assert_dest", "assert_remote", "assert_local"}

\* C3: in every bootstrap arm the empty-directory guard of each node about
\* to be initialized runs before any operation of the bootstrap; if one of
\* these paths is a file or a non-empty directory the process aborts with
\* nothing issued on any node; a missing path or an empty directory passes.
C3_GuardBeforeBootstrap ==
    /\ pc \in GuardPcs => Untouched
    /\ (\E n \in Targets : Occupied(n)) =>
        /\ Untouched
        /\ pc \in GuardPcs \cup {"aborted"}
        /\ pc = "aborted" => diagnostic = "not_empty"
    /\ (Targets # {} /\ \A n \in Targets : ~Occupied(n)) =>
        /\ diagnostic = "none"
        /\ pc # "aborted"
        /\ \A n \in Targets : fs0[n].kind \in {"missing", "empty"}

C3_Witness ==
    /\ branch = "init_both"
    /\ fs0["remote"].kind = "empty"
    /\ fs0["local"].kind = "nonempty"
    /\ pc = "aborted"
    /\ diagnostic = "not_empty"

BootstrapDone ==
    /\ branch \in {"adopt_remote", "adopt_local", "init_both"}
    /\ \A n \in Node : daemon[n] # NoEndpoint

\* C4: once a bootstrap (adopt remote, adopt local, initialize both) has
\* run to its last step, the tail hashes of local and remote are the same
\* present value, the session's tail hash; when local had a tail hash and
\* remote had none, remote has a repository whose origin is keyed by that
\* hash and whose tail hash is local's.
C4_BootstrapEqualizesTailHashes ==
    BootstrapDone =>
        /\ Present(tail_hash)
        /\ get_tail_hash(fs, "local") = tail_hash
        /\ get_tail_hash(fs, "remote") = tail_hash
        /\ branch = "adopt_remote" =>
            /\ fs["remote"].gut
            /\ origin["remote"] = [hash |-> local_tail_hash,
                                   port |-> ConnectPort]
            /\ get_tail_hash(fs, "remote") = local_tail_hash

C4_Witness ==
    /\ BootstrapDone
    /\ branch = "adopt_remote"
    /\ fs0["remote"].kind = "missing"
    /\ local_tail_hash = "H1"
    /\ get_tail_hash(fs, "remote") = "H1"

\* C5: from the initial flush on, in every session that did not abort, both
\* nodes have had a daemon started on the bind port and an origin configured
\* on the connect port, all with the session's tail hash, which is present;
\* every daemon start and origin configuration of the session used that
\* hash, and the hash, once present, never changes.
C5_DaemonsAndOriginsShareTailHash ==
    /\ [](hooked =>
            /\ Present(tail_hash)
            /\ \A n \in Node :
                /\ daemon[n] = [hash |-> tail_hash, port |-> BindPort]
                /\ origin[n] = [hash |-> tail_hash, port |-> ConnectPort])
    /\ [](\A i \in OpsOf("daemon") \cup OpsOf("setup_origin") :
            /\ Present(tail_hash)
            /\ log[i].arg[1] = tail_hash
            /\ log[i].arg[2] = IF log[i].op = "daemon" THEN BindPort
                               ELSE ConnectPort)
    /\ [][Present(tail_hash) => tail_hash' = tail_hash]_vars

C5_Witness ==
    /\ pc = "watch_local"
    /\ hooked
    /\ branch = "init_both"
    /\ tail_hash = FreshHash
    /\ \A n \in Node : daemon[n].hash = FreshHash /\ origin[n].hash = FreshHash

InQueue(e) == \E i \in 1..Len(event_queue) : event_queue[i] = e
Terminated == pc \in {"done", "crashed", "aborted"}
CommitsOf(n) == {i \in OpsOf("commit") : log[i].node = n}
PullsOn(n) == {i \in OpsOf("pull") : log[i].node = n}
FlushEnded == pc = "flush" /\ todo = {}

\* C6: a backend error raised by the commit of a commit_and_update is caught
\* there: the coroutine goes on where the call returns with the queue and
\* the accumulators as they were, every node with pending changes has had
\* its commit issued when the flush ends, and the loop then goes back to
\* its wait, where the next event is taken from the queue.
C6_CommitErrorStaysInLoop ==
    /\ [][(pc = "cu_commit" /\ Len(log') = Len(log) + 1
              /\ log'[Len(log')].op = "commit"
              /\ log'[Len(log')].res = "error")
            => /\ pc' = ret
               /\ pc' \in {"flush", "initial_cu_local", "initial_pull_remote"}
               /\ UNCHANGED <<event_queue, changed, changed_ignore, todo>>]_vars
    /\ [](FlushEnded => \A n \in Node : changed[n] # {} => CommitsOf(n) # {})
    /\ [](InFlush => pc # "crashed")
    /\ (InFlush /\ (\E i \in OpsOf("commit") : log[i].res = "error"))
           ~> (pc = "wait" /\ ~HasChanged)
    /\ (pc = "wait" /\ event_queue # <<>>) ~> (pc = "done" \/ event_queue = <<>>)

C6_Witness ==
    /\ FlushEnded
    /\ Len(log) = 2
    /\ log[1].op = "commit" /\ log[1].res = "error" /\ log[1].node = "remote"
    /\ log[2].op = "commit" /\ log[2].res = "nothing" /\ log[2].node = "local"
    /\ event_queue # <<>>

\* C7: once the sentinel is in the event queue the session comes to an end;
\* and when the loop takes the sentinel from the queue it exits at once,
\* whether or not changes are pending.
C7_SentinelEndsLoop ==
    /\ InQueue(ShutdownEvent) ~> Terminated
    /\ [][(pc = "wait" /\ event_queue # <<>>
              /\ Head(event_queue) = ShutdownEvent
              /\ event_queue' = Tail(event_queue))
            => pc' = "done" /\ UNCHANGED <<log, fs, changed>>]_vars

C7_Witness ==
    /\ pc = "done"
    /\ changed["local"] # {}
    /\ sentinel
    /\ ~InQueue(ShutdownEvent)

\* the loop's metadata filter drops the path (line 346)
Dropped(system, path) ==
    \E i \in 1..Len(path_parts_of(system, path)) :
        path_parts_of(system, path)[i] = GUT
Kept(n) == {p \in cycle[n] : ~Dropped(n, p)}
ABC == <<"a", "/", "b", "/", "c">>
AD == <<"a", "/", "d">>

\* C8 as stated: when a flush ends, every node that received change events
\* in the cycle has had exactly one commit, carrying the paths of all of
\* them, and at most one pull was issued on its peer.
C8_AllEventsCoalesced ==
    FlushEnded =>
        \A n \in Node : cycle[n] # {} =>
            /\ Cardinality(CommitsOf(n)) = 1
            /\ \A i \in CommitsOf(n) : log[i].arg.paths = cycle[n]
            /\ Cardinality(PullsOn(Other(n))) <= 1

\* C8, amended: when a flush ends, every node with change events of the
\* cycle that the metadata filter did not drop has had exactly one commit,
\* carrying the paths of all of these, and at most one pull was issued on
\* its peer, only after that commit produced a revision; a node with no
\* such event has had no commit.  a/b/c then a/d on local give one commit
\* on local with prefix a.
C8_KeptEventsCoalesced ==
    FlushEnded =>
        \A n \in Node :
            /\ Kept(n) = {} => CommitsOf(n) = {}
            /\ Kept(n) # {} =>
                /\ Cardinality(CommitsOf(n)) = 1
                /\ \A i \in CommitsOf(n) : log[i].arg.paths = Kept(n)
                /\ Cardinality(PullsOn(Other(n))) <= 1
                /\ PullsOn(Other(n)) # {} =>
                    \A i \in CommitsOf(n) : log[i].res = "committed"
            /\ (Kept(n) = {ABC, AD} /\ ~isWindows[n]) =>
                \A i \in CommitsOf(n) : log[i].arg.prefix = A

C8_Witness ==
    /\ FlushEnded
    /\ cycle["local"] = {ABC, AD}
    /\ cycle["remote"] = {}
    /\ Len(log) = 2
    /\ log[1].op = "commit" /\ log[1].node = "local" /\ log[1].arg.prefix = A
    /\ log[2].op = "pull" /\ log[2].node = "remote"

\* node n received, since the last flush, a non-metadata change event whose
\* last path component is the ignore file
IgnoreFileChanged(n) ==
    \E p \in cycle[n] :
        LET parts == Components(n, p) IN
            /\ \A i \in 1..Len(parts) : parts[i] # GUT
            /\ parts[Len(parts)] = GUTIGNORE

\* C9: in the loop, commit_and_update is called for a node with the rescan
\* flag set exactly when that node received, since the previous flush, a
\* non-metadata change event whose last path component is .gutignore; the
\* flags are all reset when a flush is over.
C9_RescanIffIgnoreFileChanged ==
    /\ (pc = "cu_commit" /\ ret = "flush") =>
        (cu.untracked <=> IgnoreFileChanged(cu.system))
    /\ (pc = "wait" /\ ~HasChanged) => changed_ignore = {}

SetMax(ks) == CHOOSE k \in ks : \A j \in ks : j <= k

\* the longest string that is a prefix of every path of P
LongestCommonPrefix(P) ==
    LET p0 == CHOOSE p \in P : TRUE
        ks == {k \in 0..Len(p0) :
                  \A q \in P : Len(q) >= k /\ Take(q, k) = Take(p0, k)}
    IN Take(p0, SetMax(ks))

\* s cut back to just before its last separator
CutBeforeLastSeparator(s, sep) ==
    LET ks == {k \in 0..(Len(s) - 1) : s[k + 1] = sep}
    IN IF ks = {} THEN <<>> ELSE Take(s, SetMax(ks))

\* d names a directory above p: p is d, a separator, and more
IsAncestor(d, p, sep) ==
    /\ Len(p) > Len(d)
    /\ Take(p, Len(d)) = d
    /\ p[Len(d) + 1] = sep

\* C10: the prefix computed for a set P of changed paths is root when P is
\* empty, and otherwise the longest common string prefix of P cut back to
\* just before its last separator, root if nothing remains; it is root or
\* a directory above every path of P, ending where a path component ends.
C10_PrefixIsCommonDirectory ==
    pf_done =>
        /\ pf_paths = {} => pf_prefix = Root
        /\ pf_paths # {} =>
            LET cut == CutBeforeLastSeparator(LongestCommonPrefix(pf_paths),
                                              separator(pf_windows))
            IN pf_prefix = IF cut = <<>> THEN Root ELSE cut
        /\ \/ pf_prefix = Root
           \/ \A p \in pf_paths :
                IsAncestor(pf_prefix, p, separator(pf_windows))

C10_Witness ==
    /\ pf_done
    /\ ~pf_windows
    /\ pf_paths = {<<"b", "/", "a">>, <<"b", "/", "b">>, <<"b", "/">>}
    /\ pf_prefix = <<"b">>

\* the log of a flush shows one operation at a time: a pull is only ever
\* the one triggered by the commit just before it, on the other node
OneAtATime ==
    \A i \in 1..Len(log) :
        log[i].op = "pull" =>
            /\ i > 1
            /\ log[i - 1].op = "commit"
            /\ log[i - 1].res = "committed"
            /\ log[i - 1].node = Other(log[i].node)

\* C11: when the wait times out, commit_and_update is called exactly once
\* for each node whose pending set is non-empty, one call after the other,
\* with that node's accumulated paths and its rescan flag; then all pending
\* sets and all rescan flags are emptied, whatever the commits returned,
\* and the loop waits again without a timeout.
C11_FlushVisitsEachPendingNodeOnce ==
    /\ [][(pc = "wait" /\ pc' = "flush") =>
            /\ log = <<>>
            /\ todo' = {n \in Node : changed[n] # {}}
            /\ todo' # {}
            /\ UNCHANGED <<changed, changed_ignore>>]_vars
    /\ [][(pc = "flush" /\ pc' = "cu_commit") =>
            /\ cu'.system \in todo
            /\ todo' = todo \ {cu'.system}
            /\ CommitsOf(cu'.system) = {}
            /\ cu'.paths = changed[cu'.system]
            /\ cu'.untracked = (cu'.system \in changed_ignore)
            /\ UNCHANGED <<changed, changed_ignore, log>>]_vars
    /\ [](InFlush =>
            /\ OneAtATime
            /\ \A n \in Node : Cardinality(CommitsOf(n)) <= 1
            /\ pc = "cu_commit" => CommitsOf(cu.system) = {})
    /\ [][(pc = "flush" /\ pc' = "wait") =>
            /\ \A n \in Node :
                /\ changed[n] = {} => CommitsOf(n) = {}
                /\ changed[n] # {} => Cardinality(CommitsOf(n)) = 1
                /\ \A i \in CommitsOf(n) :
                    /\ log[i].arg.paths = changed[n]
                    /\ log[i].arg.untracked = (n \in changed_ignore)
            /\ changed' = [n \in Node |-> {}]
            /\ changed_ignore' = {}
            /\ timer' = <<>>]_vars

C11_Witness ==
    /\ FlushEnded
    /\ changed_ignore = {"local"}
    /\ changed["remote"] # {}
    /\ Cardinality(CommitsOf("local")) = 1
    /\ Cardinality(CommitsOf("remote")) = 1
    /\ \E i \in CommitsOf("remote") : log[i].res = "error"
    /\ \E i \in CommitsOf("local") :
        log[i].res = "committed" /\ log[i].arg.untracked

\* the path, reported by node n, has .gut as one of its components
UnderMetadataDir(n, p) ==
    \E i \in 1..Len(Components(n, p)) : Components(n, p)[i] = GUT

\* C12: a change event with .gut among the components of its path is
\* dropped, and every other change event is added to the pending set of
\* its node: a pending set holds exactly the paths received since the last
\* clear that are not under .gut, a rescan flag is never due to a path
\* under .gut, and no commit_and_update of the loop is given such a path.
C12_MetadataEventsDropped ==
    /\ \A n \in Node :
        changed[n] = {p \in cycle[n] : ~UnderMetadataDir(n, p)}
    /\ \A n \in changed_ignore : IgnoreFileChanged(n)
    /\ (pc \in {"cu_commit", "cu_pull"} /\ ret = "flush") =>
        \A p \in cu.paths : ~UnderMetadataDir(cu.system, p)

\* the loop is draining: it waits on the queue without a timeout
Draining == pc = "wait" /\ timer = <<>>

\* the loop, draining, takes a change event from the queue
DrainingReceives ==
    /\ Draining
    /\ event_queue # <<>>
    /\ Head(event_queue).system # SHUTDOWN_STR
    /\ event_queue' = Tail(event_queue)

\* C13 as stated: any change event received while draining makes the next
\* wait one that is bounded by the debounce window.
C13_AnyEventStartsDebouncing ==
    [][DrainingReceives => (pc' = "wait" /\ timer' = <<DebounceTicks>>)]_vars

\* C13, amended: a change event received while draining that the metadata
\* filter does not drop makes the next wait one that is bounded by the
\* debounce window, with that event's path as the only pending one; an
\* event that the filter drops leaves the loop draining.
C13_KeptEventStartsDebouncing ==
    [][DrainingReceives =>
        LET e == Head(event_queue) IN
            /\ ~HasChanged
            /\ pc' = "wait"
            /\ IF Dropped(e.system, e.path)
               THEN timer' = <<>> /\ UNCHANGED changed
               ELSE /\ timer' = <<DebounceTicks>>
                    /\ changed' = [changed EXCEPT ![e.system] = {e.path}]]_vars

C13_Witness ==
    /\ pc = "wait"
    /\ timer = <<DebounceTicks>>
    /\ cycle["local"] = {}
    /\ Cardinality(cycle["remote"]) = 1
    /\ changed = cycle
    /\ event_queue = <<>>
    /\ ~sentinel

\* a commit that stages everything and rescans for untracked files
StageEverything(i) ==
    /\ log[i].arg.paths = {}
    /\ log[i].arg.prefix = Root
    /\ log[i].arg.untracked

\* C14: when the last step before the loop is reached, commit_and_update
\* has run exactly once for remote and then exactly once for local, each
\* with no paths and the rescan flag set, and after both a pull on remote
\* was issued; the pull on local follows and leads into the loop.  No event
\* is taken from the queue before, and the loop is entered in no other way,
\* whether or not events have arrived.
C14_InitialFlushBeforeLoop ==
    /\ [](pc = "initial_pull_local" =>
            \E i, j \in OpsOf("commit") :
                /\ OpsOf("commit") = {i, j}
                /\ i < j
                /\ j < Len(log)
                /\ log[i].node = "remote" /\ StageEverything(i)
                /\ log[j].node = "local" /\ StageEverything(j)
                /\ \A k \in (i + 1)..(j - 1) :
                    log[k] = Op("pull", "local", "commit_and_update",
                                log[k].res)
                /\ \A k \in (j + 1)..(Len(log) - 1) :
                    log[k] = Op("pull", "remote", "commit_and_update",
                                log[k].res)
                /\ j - i <= 2
                /\ Len(log) - j <= 2
                /\ log[Len(log)] = Op("pull", "remote", "sync", "ok"))
    /\ [][(pc = "initial_pull_local" /\ pc' # pc) =>
            \/ pc' = "wait" /\ fs' = PullEffect(fs, "local")
            \/ pc' = "crashed" /\ UNCHANGED fs]_vars
    /\ [][(pc # "wait" /\ pc' = "wait") =>
            pc \in {"initial_pull_local", "flush"}]_vars
    /\ [][(pc # "flush" /\ pc' = "flush") =>
            \/ pc = "wait"
            \/ pc \in {"cu_commit", "cu_pull"} /\ ret = "flush"]_vars
    /\ [][Len(event_queue') < Len(event_queue) => pc = "wait"]_vars
    /\ [](pc \notin {"wait", "flush", "cu_commit", "cu_pull", "done",
                     "crashed"} => ~HasChanged)

C14_Witness ==
    /\ pc = "initial_pull_local"
    /\ produced = 0
    /\ event_queue = <<>>
    /\ \A i \in OpsOf("commit") : log[i].res = "nothing"

\* the pulls issued by commit_and_update
TriggeredPulls ==
    {i \in OpsOf("pull") : log[i].arg = "commit_and_update"}

\* C15: commit_and_update for node X issues its commit on X and then a pull
\* exactly when that commit reported a new revision, and issues it on the
\* other node; after a commit that produced nothing or failed the
\* operation returns without a pull.
C15_PullIffCommitProduced ==
    /\ [][(pc = "cu_commit" /\ pc' # pc) =>
            /\ log' = Append(log, log'[Len(log')])
            /\ log'[Len(log')].op = "commit"
            /\ log'[Len(log')].node = cu.system
            /\ pc' = IF log'[Len(log')].res = "committed"
                     THEN "cu_pull" ELSE ret
            /\ UNCHANGED <<fs, cu, ret>>]_vars
    /\ [][(pc = "cu_pull" /\ pc' # pc) =>
            /\ log' = Append(log, log'[Len(log')])
            /\ log'[Len(log')].op = "pull"
            /\ log'[Len(log')].arg = "commit_and_update"
            /\ log'[Len(log')].node = Other(cu.system)
            /\ log'[Len(log')].node # cu.system
            /\ pc' = ret
            /\ UNCHANGED <<cu, ret>>]_vars
    /\ [](pc = "cu_pull" =>
            /\ log # <<>>
            /\ log[Len(log)] = Op("commit", cu.system, log[Len(log)].arg,
                                  "committed"))
    /\ [](\A i \in TriggeredPulls :
            /\ i > 1
            /\ log[i - 1].op = "commit"
            /\ log[i - 1].res = "committed"
            /\ log[i - 1].node = Other(log[i].node))
    /\ [](\A i \in OpsOf("commit") :
            IF log[i].res = "committed"
            THEN IF i = Len(log) THEN pc = "cu_pull"
                 ELSE i + 1 \in TriggeredPulls
            ELSE i + 1 \notin TriggeredPulls)

C15_Witness ==
    /\ pc = "initial_pull_remote"
    /\ \E i \in CommitsOf("remote") :
        /\ log[i].res = "committed"
        /\ log[i + 1] = Op("pull", "local", "commit_and_update", "ok")
    /\ log[Len(log)].op = "commit"
    /\ log[Len(log)].node = "local"
    /\ log[Len(log)].res = "nothing"

\* the step issues a backend operation of one of the kinds, and it fails
Fails(kinds) ==
    /\ Len(log') = Len(log) + 1
    /\ log' = Append(log, log'[Len(log')])
    /\ log'[Len(log')].op \in kinds
    /\ log'[Len(log')].res = "error"

\* C16 as stated: a backend error of a commit is caught, and a backend
\* error of any pull, of a daemon start or of an init ends the session.
C16_OnlyCommitGuarded ==
    /\ [][Fails({"commit"}) => pc' # "crashed"]_vars
    /\ [][Fails({"pull", "daemon", "init"}) => pc' = "crashed"]_vars

\* C16, amended: commit_and_update catches the backend error of its commit
\* and of the pull it triggers on the peer, and returns to its caller; a
\* backend error of any other pull (the one of a bootstrap, the two before
\* the loop), of a daemon start or of an init ends the session.
C16_CommitAndTriggeredPullGuarded ==
    /\ [][Fails({"commit"}) => (pc = "cu_commit" /\ pc' = ret)]_vars
    /\ [][(Fails({"pull"}) /\ log'[Len(log')].arg = "commit_and_update") =>
            (pc = "cu_pull" /\ pc' = ret /\ UNCHANGED fs)]_vars
    /\ [][(Fails({"pull"}) /\ log'[Len(log')].arg # "commit_and_update") =>
            (pc \in {"ci_pull", "initial_pull_remote", "initial_pull_local"}
             /\ pc' = "crashed")]_vars
    /\ [][Fails({"daemon", "init"}) => pc' = "crashed"]_vars
    /\ [](pc \in {"cu_commit", "cu_pull"} => ret # "crashed")
    /\ [][pc = "crashed" => UNCHANGED <<pc, log, fs>>]_vars

C16_Witness ==
    /\ pc = "crashed"
    /\ Len(log) > 2
    /\ log[Len(log)] = Op("pull", "remote", "sync", "error")
    /\ \E i \in TriggeredPulls : log[i].res = "error"

\* the loop waits with changes pending
Debouncing == pc = "wait" /\ HasChanged

\* C17: with time counted in ticks, the flush starts only when a full
\* debounce window of ticks has gone by since the loop last received an
\* event; when that window has gone by with changes pending and the queue
\* empty, the flush can start and no further tick goes by before it; and
\* every event received with changes pending afterwards, whether it added
\* to the pending sets or not, starts a full window again.
C17_FlushAfterFullQuietWindow ==
    /\ [][(pc = "wait" /\ pc' = "flush") =>
            /\ elapsed = DebounceTicks
            /\ HasChanged
            /\ event_queue = <<>>]_vars
    /\ [](Debouncing => (timer # <<>> /\ elapsed + timer[1] = DebounceTicks))
    /\ []((Debouncing /\ elapsed = DebounceTicks /\ event_queue = <<>>) =>
            (ENABLED Timeout /\ ~ENABLED Tick))
    /\ []((Debouncing /\ elapsed < DebounceTicks) => ~ENABLED Timeout)
    /\ [][(pc = "wait" /\ event_queue # <<>> /\ pc' = "wait"
             /\ event_queue' = Tail(event_queue)) =>
            /\ elapsed' = 0
            /\ timer' = IF HasChanged' THEN <<DebounceTicks>> ELSE <<>>]_vars
    /\ [][elapsed' > elapsed =>
            (Debouncing /\ event_queue = <<>> /\ elapsed' = elapsed + 1
             /\ UNCHANGED <<pc, changed, event_queue>>)]_vars

C17_Witness ==
    /\ Debouncing
    /\ elapsed = DebounceTicks
    /\ event_queue = <<>>
    /\ Cardinality(changed["local"]) = 2

\* the steps of "adopt d from s", as <<operation, node>>
AdoptSteps(s, d) ==
    <<  <<"daemon", s>>, <<"init", d>>, <<"setup_origin", d>>,
        <<"sleep", d>>, <<"pull", d>>, <<"daemon", d>>  >>

\* the bootstrap steps of each arm that has any
BootstrapSteps(b) ==
    CASE b = "adopt_remote" -> AdoptSteps("local", "remote")
      [] b = "adopt_local" -> AdoptSteps("remote", "local")
      [] b = "init_both" -> <<  <<"init", "local">>,
                                <<"initial_commit", "local">>  >>
                            \o AdoptSteps("local", "remote")

Bootstrapping == branch \in {"adopt_remote", "adopt_local", "init_both"}
BootstrapSrc == IF branch = "adopt_local" THEN "remote" ELSE "local"

\* C18: a bootstrap issues: daemon on src with the agreed tail hash, which
\* src's repository has; init at dest; origin of dest; pause; pull into
\* dest; daemon on dest, each after the one before it succeeded, so that
\* when dest pulls, src's daemon runs and dest's origin is configured.
\* When both repositories are absent, init on local and the initial commit
\* on local come first and the agreed hash is read from local after them.
C18_BootstrapOrder ==
    /\ [](Bootstrapping =>
            \A i \in 1..Len(log) :
                /\ i <= Len(BootstrapSteps(branch)) =>
                    <<log[i].op, log[i].node>> = BootstrapSteps(branch)[i]
                /\ i < Len(log) => log[i].res = "ok"
                /\ log[i].op = "daemon" =>
                    /\ log[i].arg = <<tail_hash, BindPort>>
                    /\ tail_hash # None
                    /\ tail_hash = get_tail_hash(fs, BootstrapSrc))
    /\ [](pc = "ci_daemon_src" =>
            /\ Bootstrapping
            /\ src = BootstrapSrc /\ dest = Other(src)
            /\ tail_hash # None
            /\ tail_hash = get_tail_hash(fs, src)
            /\ Len(log) = IF branch = "init_both" THEN 2 ELSE 0)
    /\ [](pc = "ci_pull" =>
            /\ daemon[src] = [hash |-> tail_hash, port |-> BindPort]
            /\ origin[dest] = [hash |-> tail_hash, port |-> ConnectPort]
            /\ daemon[dest] = NoEndpoint)
    /\ [][(Bootstrapping /\ Len(log') > Len(BootstrapSteps(branch))) =>
            Len(log) >= Len(BootstrapSteps(branch))]_vars
    /\ []((Bootstrapping /\ pc \in {"origin_local", "origin_remote"}) =>
            Len(log) >= Len(BootstrapSteps(branch)))

C18_Witness ==
    /\ pc = "origin_local"
    /\ branch = "init_both"
    /\ Len(log) = 8
    /\ daemon["remote"] = [hash |-> FreshHash, port |-> BindPort]

\* the session has ended without a failure: sync() has returned
Ended == pc \in {"returned", "done"}

\* C19: a session with both contexts made does not end unless shutdown was
\* requested (a fatal condition ends it as aborted or crashed): when sync()
\* has returned, both tail hashes were queried, both watchers were attached
\* and the loop was left on the shutdown sentinel.
C19_SessionRunsUntilShutdown ==
    (Ended /\ conn["local"] /\ conn["remote"]) =>
        /\ sentinel
        /\ hooked
        /\ watching["local"] /\ watching["remote"]
        /\ pc = "done"

\* the loop takes the shutdown sentinel from the queue
SentinelDequeued ==
    /\ pc = "wait"
    /\ event_queue # <<>>
    /\ Head(event_queue) = ShutdownEvent
    /\ event_queue' = Tail(event_queue)

\* C20: when the loop takes the sentinel from the queue it ends at once,
\* whatever is pending: that step and every later one issues no backend
\* operation and starts no commit_and_update, and the pending sets stay as
\* they were, uncommitted since they were accumulated.
C20_SentinelExitsWithoutFlush ==
    /\ [][SentinelDequeued =>
            /\ pc' = "done"
            /\ UNCHANGED <<log, fs, cu, todo, changed, changed_ignore>>]_vars
    /\ [][pc = "done" =>
            UNCHANGED <<pc, log, fs, cu, todo, changed, changed_ignore>>]_vars
    /\ [](pc = "done" => (log = <<>> /\ todo = {}))
    /\ [][(pc' \in {"flush", "cu_commit", "cu_pull"} /\ pc' # pc) =>
            pc # "done"]_vars

C20_Witness ==
    /\ pc = "done"
    /\ changed["local"] # {}
    /\ changed["remote"] # {}
    /\ changed_ignore = {"remote"}
    /\ event_queue = <<>>

EventIds == DOMAIN fate
IsChange(e) == e.system # SHUTDOWN_STR
QueuedIds == {i \in EventIds : fate[i].st = "queued"}

\* the k-th smallest element of a set of numbers
RECURSIVE Nth(_, _)
Nth(ids, k) ==
    LET m == CHOOSE i \in ids : \A j \in ids : i <= j
    IN IF k = 1 THEN m ELSE Nth(ids \ {m}, k - 1)

\* the queue holds, in the order of their production, exactly the change
\* events that the loop has not taken yet
QueueHoldsUntaken ==
    LET q == SelectSeq(event_queue, IsChange) IN
        /\ Len(q) = Cardinality(QueuedIds)
        /\ \A k \in 1..Len(q) :
            /\ q[k].system = fate[Nth(QueuedIds, k)].system
            /\ q[k].path = fate[Nth(QueuedIds, k)].path

\* C21: the watchers only append to the queue; while a flush is under way
\* and when it ends with the clear, nothing is removed from the queue, so
\* the queue always holds exactly the change events not yet taken; every
\* commit_and_update of the loop is given the paths of the events taken
\* for its node since the last clear, among them all those outside .gut,
\* and no path of an event passed on before; no event outside .gut is
\* wiped by a clear without having been passed on; and an event outside
\* .gut that is in the queue is passed on to a commit_and_update later,
\* once and for all, unless the loop ends on the sentinel or the session
\* fails first.
C21_NoEventLostOrRepeated ==
    /\ [][Len(event_queue') > Len(event_queue) =>
            /\ event_queue' = Append(event_queue,
                                     event_queue'[Len(event_queue')])
            /\ UNCHANGED <<pc, changed, changed_ignore, todo, cu>>]_vars
    /\ [][(InFlush \/ pc # "wait") =>
            /\ Len(event_queue') >= Len(event_queue)
            /\ SubSeq(event_queue', 1, Len(event_queue)) = event_queue]_vars
    /\ [](hooked => QueueHoldsUntaken)
    /\ [][(pc = "flush" /\ pc' = "cu_commit") =>
            /\ {fate[i].path : i \in {j \in TakenFor(fate, cu'.system) :
                                        ~fate[j].meta}} \subseteq cu'.paths
            /\ cu'.paths \subseteq
                    {fate[i].path : i \in TakenFor(fate, cu'.system)}]_vars
    /\ [](\A i \in EventIds : fate[i].st = "cleared" => fate[i].meta)
    /\ [][\A i \in EventIds :
            /\ fate[i].st = "flushed" => fate'[i] = fate[i]
            /\ (fate'[i].st = "flushed" /\ fate[i].st # "flushed") =>
                (pc = "flush" /\ pc' = "cu_commit"
                 /\ cu'.system = fate[i].system
                 /\ fate[i].path \in cu'.paths)]_vars
    /\ \A i \in 1..MaxEvents :
        (fate[i].st = "queued" /\ ~fate[i].meta)
            ~> (fate[i].st = "flushed" \/ pc \in {"done", "crashed"})

C21_Witness ==
    /\ pc = "cu_commit"
    /\ ret = "flush"
    /\ fate[1].st = "flushed" /\ ~fate[1].inflight
    /\ fate[2].st = "flushed" /\ fate[2].inflight /\ ~fate[2].meta
    /\ log = <<>>
    /\ ~sentinel

====
